---- MODULE Spec2Model ----
(***************************************************************************)
(* Model of MoviePilotClient (src/client.py): the credential lifecycle     *)
(* (login, lazy acquisition under asyncio.Lock, invalidation) and the      *)
(* request / retry protocol of _request.                                   *)
(*                                                                         *)
(* The client runs on one asyncio event loop: a coroutine runs without     *)
(* interruption from one await that suspends to the next.  Each action     *)
(* below is one such run: from the call (or from the arrival of a          *)
(* response, or from the wake-up of a lock waiter) to the next network     *)
(* await, lock wait, return or raise.                                      *)
(***************************************************************************)
EXTENDS Integers, Sequences, FiniteSets, TLC

\* ---------------------------------------------------------------- bounds
NumCallers == 2        \* concurrent tasks sharing the client
MaxRetry   == 1        \* largest value of the retry argument that is tried

Callers == 1..NumCallers

\* ------------------------------------------------------- values of _token
NoneTok  == 0          \* None
EmptyTok == 0 - 1      \* "" (an empty access_token stored by login)
\* tokens returned by the server are 1, 2, 3, ...: the k-th successful
\* login returns token k

\* faulty variant: `self._token is None`, which takes "" for a token
Falsy_NoneOnly(t) == t = NoneTok

\* `not self._token`
Falsy(t) == t = NoneTok \/ t = EmptyTok

\* ------------------------------------------------ request descriptors
\* method, endpoint, params and body of a call; every caller makes one call
\* and caller c asks for descriptor c
DescOf(c) == c
NoDesc == 0

\* ------------------------------------------------------- server answers
\* answers of the login endpoint, as seen by login()
LoginResponses ==
    {[kind |-> "http", status |-> 200, body |-> b] :
        b \in {"access_token", "no_access_token", "empty_access_token",
               "not_json"}}
    \cup {[kind |-> "http", status |-> s, body |-> "detail"] : s \in {401, 500}}
    \cup {[kind |-> "transport", status |-> 0, body |-> "-"],
          [kind |-> "other", status |-> 0, body |-> "-"]}

\* answers to an API request, as seen by _request
ApiResponses ==
    {[kind |-> "http", status |-> 200, body |-> b] :
        b \in {"json", "text", "empty"}}
    \cup {[kind |-> "http", status |-> 204, body |-> "empty"]}
    \cup {[kind |-> "http", status |-> s, body |-> "detail"] :
            s \in {401, 403, 404, 500}}
    \cup {[kind |-> "transport", status |-> 0, body |-> "-"],
          [kind |-> "other", status |-> 0, body |-> "-"]}

\* response.raise_for_status(): raises HTTPStatusError on 4xx/5xx
RaisesForStatus(status) == status >= 400

\* -------------------------------------------------- constructor inputs
\* a constructor argument or an environment variable: None (not given, not
\* set), the empty string, or a non-empty string
Inputs == {"none", "empty", "set"}

\* `argument or os.getenv(NAME)`, lines 43-45
Resolve(arg, env) == IF arg = "set" THEN arg ELSE env

\* `not self.base_url`, `not self._username`, lines 50 and 52
Missing(v) == v # "set"

\* line 47, httpx.AsyncClient(base_url = b, ...): a client is made, except
\* that for b = None the library may refuse the argument with a TypeError
AsyncClientOutcomes(b) ==
    IF b = "none" THEN {"client", "TypeError"} ELSE {"client"}

NoConfig == [base_url |-> "none", username |-> "none", password |-> "none"]

VARIABLES
    client,     \* "unbuilt", "ready" (__init__ returned) or "failed" (raised)
    config,     \* self.base_url, self._username, self._password
    transport,  \* self._client: "none", or "open" (made and not closed)
    ctorErr,    \* exception raised by __init__
    token,      \* self._token
    locked,     \* self._auth_lock._locked
    waiters,    \* self._auth_lock._waiters, in arrival order
    pc,         \* where each caller's _request call stands
    desc,       \* method, endpoint, params, body of the call
    auth,       \* requires_auth of the call
    retry,      \* retry argument of the innermost _request frame
    hdrTok,     \* token in the Authorization header of the request sent
    sentDesc,   \* descriptor of the request sent
    result,     \* value returned by the call
    errKind,    \* exception class raised by the call
    errMsg,     \* which raise statement produced it
    errStatus,  \* status_code attribute of the exception (0: None)
    \* history
    loginCalls, \* number of login POSTs issued
    loginsOk,   \* number of logins that returned a token
    rejects,    \* number of 401/403 answers processed
    retry0,     \* retry argument the call was started with
    nSent,      \* API requests sent by the call
    nLogin,     \* login POSTs issued by the call
    waited,     \* the call was suspended on the lock at least once
    rejAt       \* loginsOk when the call's last rejection was processed

hist == <<loginCalls, loginsOk, rejects, retry0, nSent,
          nLogin, waited, rejAt>>
vars == <<client, config, transport, ctorErr, token, locked, waiters, pc, desc, auth, retry, hdrTok, sentDesc,
          result, errKind, errMsg, errStatus, hist>>

Terminal == {"Success", "Failed"}

\* before MoviePilotClient(...) is called; the fields of the client take
\* the values __init__ gives them
Init ==
    /\ client = "unbuilt"
    /\ config = NoConfig
    /\ transport = "none"
    /\ ctorErr = "-"
    /\ token = NoneTok
    /\ locked = FALSE
    /\ waiters = <<>>
    /\ pc = [c \in Callers |-> "Idle"]
    /\ desc = [c \in Callers |-> NoDesc]
    /\ auth = [c \in Callers |-> TRUE]
    /\ retry = [c \in Callers |-> 0]
    /\ hdrTok = [c \in Callers |-> NoneTok]
    /\ sentDesc = [c \in Callers |-> NoDesc]
    /\ result = [c \in Callers |-> "-"]
    /\ errKind = [c \in Callers |-> "-"]
    /\ errMsg = [c \in Callers |-> "-"]
    /\ errStatus = [c \in Callers |-> 0]
    /\ loginCalls = 0
    /\ loginsOk = 0
    /\ rejects = 0
    /\ retry0 = [c \in Callers |-> 0]
    /\ nSent = [c \in Callers |-> 0]
    /\ nLogin = [c \in Callers |-> 0]
    /\ waited = [c \in Callers |-> FALSE]
    /\ rejAt = [c \in Callers |-> 0]


\* ------------------------------------------------------------------------
\* The handlers are written as functions from the state before a run to the
\* state after it, so that a run made of several calls (a rejection that
\* invalidates and re-enters _request, a login that returns into the caller)
\* is the composition of its parts.
Cur ==
    [client |-> client, config |-> config, transport |-> transport,
     ctorErr |-> ctorErr,
     token |-> token, locked |-> locked, waiters |-> waiters, pc |-> pc,
     desc |-> desc, auth |-> auth, retry |-> retry, hdrTok |-> hdrTok,
     sentDesc |-> sentDesc, result |-> result, errKind |-> errKind,
     errMsg |-> errMsg, errStatus |-> errStatus,
     loginCalls |-> loginCalls, loginsOk |-> loginsOk,
     rejects |-> rejects, retry0 |-> retry0,
     nSent |-> nSent, nLogin |-> nLogin, waited |-> waited,
     rejAt |-> rejAt]

Become(s) ==
    /\ client' = s.client
    /\ config' = s.config
    /\ transport' = s.transport
    /\ ctorErr' = s.ctorErr
    /\ token' = s.token
    /\ locked' = s.locked
    /\ waiters' = s.waiters
    /\ pc' = s.pc
    /\ desc' = s.desc
    /\ auth' = s.auth
    /\ retry' = s.retry
    /\ hdrTok' = s.hdrTok
    /\ sentDesc' = s.sentDesc
    /\ result' = s.result
    /\ errKind' = s.errKind
    /\ errMsg' = s.errMsg
    /\ errStatus' = s.errStatus
    /\ loginCalls' = s.loginCalls
    /\ loginsOk' = s.loginsOk
    /\ rejects' = s.rejects
    /\ retry0' = s.retry0
    /\ nSent' = s.nSent
    /\ nLogin' = s.nLogin
    /\ waited' = s.waited
    /\ rejAt' = s.rejAt

\* ------------------------------------------------------------ the lock
\* asyncio.Lock.acquire returns at once when the lock is free and nobody
\* is queued; otherwise the caller is queued and suspended.
\* faulty variant: an advisory flag that never makes a caller wait
LockFastPath_Advisory(s) == TRUE

LockFastPath(s) == ~s.locked /\ s.waiters = <<>>

\* faulty variant: login called without entering `async with`
Acquire_Noop(s) == s

Acquire(s) == [s EXCEPT !.locked = TRUE]

\* faulty variant: the lock is never given back
Release_Noop(s) == s

\* asyncio.Lock.release (exit of `async with`, by return or by exception):
\* the lock is free again and the first waiter is made runnable.
Release(s) == [s EXCEPT !.locked = FALSE]

\* --------------------------------------------------------- _request, send
\* lines 125-136: the request goes out with the headers built at line 121-123
SendRequest(s, c, tok) ==
    [s EXCEPT !.pc[c] = "Sent",
              !.hdrTok[c] = tok,
              !.sentDesc[c] = s.desc[c],
              !.nSent[c] = @ + 1]

\* a raise that leaves the outermost _request frame
Fail(s, c, kind, msg, status) ==
    [s EXCEPT !.pc[c] = "Failed",
              !.errKind[c] = kind,
              !.errMsg[c] = msg,
              !.errStatus[c] = status]

\* ------------------------------------------------------ _get_auth_headers
\* line 108, then back in _request
ReturnHeaders(s, c) == SendRequest(s, c, s.token)

\* line 107: the login POST goes out while the lock is held
IssueLogin(s, c) ==
    [s EXCEPT !.pc[c] = "Login",
              !.loginCalls = @ + 1,
              !.nLogin[c] = @ + 1]

\* faulty variant: no second check after the lock is taken
NeedLoginUnderLock_NoRecheck(s) == TRUE

\* line 105: the second check, made with the lock held
NeedLoginUnderLock(s) == Falsy(s.token)

\* lines 105-108 with the lock held
UnderLock(s, c) ==
    IF NeedLoginUnderLock(s)
    THEN IssueLogin(s, c)
    ELSE ReturnHeaders(Release(s), c)

WaitForLock(s, c) ==
    [s EXCEPT !.waiters = Append(@, c),
              !.pc[c] = "Waiting",
              !.waited[c] = TRUE]

\* lines 103-108, up to the first suspension
GetAuthHeaders(s, c) ==
    IF ~Falsy(s.token)
    THEN ReturnHeaders(s, c)
    ELSE IF LockFastPath(s)
         THEN UnderLock(Acquire(s), c)
         ELSE WaitForLock(s, c)

\* faulty variant: requires_auth is ignored
RequestFrame_AlwaysAuth(s, c, r) ==
    GetAuthHeaders([s EXCEPT !.retry[c] = r], c)

\* lines 121-136: one _request frame with retry = r, up to its first
\* suspension
RequestFrame(s, c, r) ==
    LET s1 == [s EXCEPT !.retry[c] = r]
    IN  IF s1.auth[c]
        THEN GetAuthHeaders(s1, c)
        ELSE SendRequest(s1, c, NoneTok)


\* ------------------------------------------------------------------ login
\* faulty variant: line 78 missing, a 2xx answer without token is a success
LoginOutcome_NoTokenCheck(resp, fresh) ==
    IF resp.kind = "transport"
    THEN [writes |-> FALSE, value |-> NoneTok, raised |-> TRUE,
          error |-> "AuthenticationError", msg |-> "login_network"]
    ELSE IF resp.kind = "other"
    THEN [writes |-> FALSE, value |-> NoneTok, raised |-> TRUE,
          error |-> "AuthenticationError", msg |-> "login_unexpected"]
    ELSE IF RaisesForStatus(resp.status)
    THEN [writes |-> FALSE, value |-> NoneTok, raised |-> TRUE,
          error |-> "AuthenticationError", msg |-> "login_http"]
    ELSE IF resp.body = "not_json"
    THEN [writes |-> FALSE, value |-> NoneTok, raised |-> TRUE,
          error |-> "AuthenticationError", msg |-> "login_unexpected"]
    ELSE IF resp.body = "no_access_token"
    THEN [writes |-> TRUE, value |-> NoneTok, raised |-> FALSE,
          error |-> "-", msg |-> "-"]
    ELSE IF resp.body = "empty_access_token"
    THEN [writes |-> TRUE, value |-> EmptyTok, raised |-> FALSE,
          error |-> "-", msg |-> "-"]
    ELSE [writes |-> TRUE, value |-> fresh, raised |-> FALSE,
          error |-> "-", msg |-> "-"]

\* lines 69-99: what login() does with the answer of the login endpoint.
\* fresh is the access_token the server hands out.  writes / value: the
\* assignment of line 77; raised / msg: the exception that leaves login().
LoginOutcome(resp, fresh) ==
    IF resp.kind = "transport"
    THEN [writes |-> FALSE, value |-> NoneTok, raised |-> TRUE,
          error |-> "AuthenticationError", msg |-> "login_network"]
    ELSE IF resp.kind = "other"
    THEN [writes |-> FALSE, value |-> NoneTok, raised |-> TRUE,
          error |-> "AuthenticationError", msg |-> "login_unexpected"]
    ELSE IF RaisesForStatus(resp.status)
    THEN [writes |-> FALSE, value |-> NoneTok, raised |-> TRUE,
          error |-> "AuthenticationError", msg |-> "login_http"]
    ELSE IF resp.body = "not_json"
    THEN [writes |-> FALSE, value |-> NoneTok, raised |-> TRUE,
          error |-> "AuthenticationError", msg |-> "login_unexpected"]
    ELSE IF resp.body = "no_access_token"
    THEN [writes |-> TRUE, value |-> NoneTok, raised |-> TRUE,
          error |-> "AuthenticationError", msg |-> "login_unexpected"]
    ELSE IF resp.body = "empty_access_token"
    THEN [writes |-> TRUE, value |-> EmptyTok, raised |-> TRUE,
          error |-> "AuthenticationError", msg |-> "login_unexpected"]
    ELSE [writes |-> TRUE, value |-> fresh, raised |-> FALSE,
          error |-> "-", msg |-> "-"]

\* login() from the arrival of the answer to its return or raise
Login(s, resp) ==
    LET o == LoginOutcome(resp, s.loginsOk + 1)
    IN  [s EXCEPT !.token = IF o.writes THEN o.value ELSE @,
                  !.loginsOk = IF o.raised THEN @ ELSE @ + 1]

\* faulty variant: a failed login is treated like a rejection and uses up a
\* retry
LoginReturns_RetryLogin(s, c, resp) ==
    LET o  == LoginOutcome(resp, s.loginsOk + 1)
        s1 == Release(Login(s, resp))
    IN  IF o.raised
        THEN IF s1.retry[c] > 0
             THEN GetAuthHeaders([s1 EXCEPT !.retry[c] = @ - 1], c)
             ELSE Fail(s1, c, o.error, o.msg, 0)
        ELSE ReturnHeaders(s1, c)

\* faulty variant: acquire / release by hand, the release skipped when login raises
LoginReturns_LockLeak(s, c, resp) ==
    LET o  == LoginOutcome(resp, s.loginsOk + 1)
    IN  IF o.raised
        THEN Fail(Login(s, resp), c, o.error, o.msg, 0)
        ELSE ReturnHeaders(Release(Login(s, resp)), c)

\* lines 104-108 resumed when `await self.login()` finishes: the
\* `async with` block is left (lock released) whether login returned or
\* raised; a raise leaves _request at line 123
LoginReturns(s, c, resp) ==
    LET o  == LoginOutcome(resp, s.loginsOk + 1)
        s1 == Release(Login(s, resp))
    IN  IF o.raised
        THEN Fail(s1, c, o.error, o.msg, 0)
        ELSE ReturnHeaders(s1, c)

\* faulty variant: a waiter that finds the token absent after a failed login takes
\* that failure for its own instead of logging in
WakeUp_SharedFailure(s, c) ==
    LET s1 == Acquire([s EXCEPT !.waiters = Tail(@)])
    IN  IF Falsy(s1.token)
           /\ \E d \in Callers :
                 s.pc[d] = "Failed" /\ s.errKind[d] = "AuthenticationError"
        THEN Fail(Release(s1), c, "AuthenticationError", "login_unexpected", 0)
        ELSE UnderLock(s1, c)

\* a waiter resumes inside Lock.acquire, takes the lock, goes on at line 105
WakeUp(s, c) == UnderLock(Acquire([s EXCEPT !.waiters = Tail(@)]), c)

\* --------------------------------------------------------------- _request
\* faulty variant: no fallback to the raw text, every non-empty body is
\* taken for parsed JSON
ParseBody_AlwaysJson(status, body) ==
    IF status = 204 \/ body = "empty" THEN "None" ELSE "json"

\* lines 139-145
ParseBody(status, body) ==
    IF status = 204 \/ body = "empty" THEN "None"
    ELSE IF body = "json" THEN "json"
    ELSE "text"

Succeed(s, c, value) ==
    [s EXCEPT !.pc[c] = "Success", !.result[c] = value]

\* faulty variant: server errors are retried too
IsAuthRejection_ServerErrors(status) == status \in {401, 403, 500}

\* line 154
IsAuthRejection(status) == status \in {401, 403}

\* faulty variant: the rejected token is kept
Invalidate_Keep(t) == t

\* line 155
Invalidate(t) == NoneTok

\* faulty variant: off by one
RetryAllowed_OffByOne(r) == r >= 0

\* line 156
RetryAllowed(r) == r > 0

\* faulty variant: invalidation also resets the lock
Rejected_ResetsLock(s, c, status) ==
    LET s1 == [s EXCEPT !.token = Invalidate(@),
                        !.locked = FALSE,
                        !.rejects = @ + 1,
                        !.rejAt[c] = s.loginsOk]
    IN  IF RetryAllowed(s.retry[c])
        THEN RequestFrame(s1, c, s.retry[c] - 1)
        ELSE Fail(s1, c, "AuthenticationError", "rejected", status)

\* lines 154-168
Rejected(s, c, status) ==
    LET s1 == [s EXCEPT !.token = Invalidate(@),
                        !.rejects = @ + 1,
                        !.rejAt[c] = s.loginsOk]
    IN  IF RetryAllowed(s.retry[c])
        THEN RequestFrame(s1, c, s.retry[c] - 1)
        ELSE Fail(s1, c, "AuthenticationError", "rejected", status)

\* faulty variant: the token is dropped on every HTTP error status
ResponseArrives_ClearOnAnyError(s, c, resp) ==
    IF resp.kind = "transport"
    THEN Fail(s, c, "MoviePilotError", "network", 0)
    ELSE IF resp.kind = "other"
    THEN Fail(s, c, "MoviePilotError", "unexpected", 0)
    ELSE IF ~RaisesForStatus(resp.status)
    THEN Succeed(s, c, ParseBody(resp.status, resp.body))
    ELSE IF IsAuthRejection(resp.status)
    THEN Rejected(s, c, resp.status)
    ELSE Fail([s EXCEPT !.token = NoneTok], c, "MoviePilotError", "api", 0)

\* faulty variant: no `except httpx.RequestError` clause, a transport
\* failure falls through to the catch-all
ResponseArrives_NoNetworkClause(s, c, resp) ==
    IF resp.kind = "transport"
    THEN Fail(s, c, "MoviePilotError", "unexpected", 0)
    ELSE IF resp.kind = "other"
    THEN Fail(s, c, "MoviePilotError", "unexpected", 0)
    ELSE IF ~RaisesForStatus(resp.status)
    THEN Succeed(s, c, ParseBody(resp.status, resp.body))
    ELSE IF IsAuthRejection(resp.status)
    THEN Rejected(s, c, resp.status)
    ELSE Fail(s, c, "MoviePilotError", "api", 0)

\* lines 137-177: _request resumed when the answer to its request arrives
ResponseArrives(s, c, resp) ==
    IF resp.kind = "transport"
    THEN Fail(s, c, "MoviePilotError", "network", 0)
    ELSE IF resp.kind = "other"
    THEN Fail(s, c, "MoviePilotError", "unexpected", 0)
    ELSE IF ~RaisesForStatus(resp.status)
    THEN Succeed(s, c, ParseBody(resp.status, resp.body))
    ELSE IF IsAuthRejection(resp.status)
    THEN Rejected(s, c, resp.status)
    ELSE Fail(s, c, "MoviePilotError", "api", 0)

\* lines 110-136: a caller starts _request(d, requires_auth = a, retry = r)
StartCall(s, c, d, a, r) ==
    LET s1 == [s EXCEPT !.desc[c] = d,
                        !.auth[c] = a,
                        !.retry0[c] = r,
                        !.hdrTok[c] = NoneTok,
                        !.sentDesc[c] = NoDesc,
                        !.result[c] = "-",
                        !.errKind[c] = "-",
                        !.errMsg[c] = "-",
                        !.errStatus[c] = 0,
                        !.nSent[c] = 0,
                        !.nLogin[c] = 0,
                        !.waited[c] = FALSE,
                        !.rejAt[c] = 0]
    IN  RequestFrame(s1, c, r)

\* lines 43-56: __init__ with the resolved configuration cfg, made being
\* what httpx.AsyncClient(...) did at line 47
Constructed(s, cfg, made) ==
    IF made = "TypeError"
    THEN [s EXCEPT !.config = cfg,
                   !.client = "failed",
                   !.ctorErr = "TypeError"]
    ELSE LET s1 == [s EXCEPT !.config = cfg,
                             !.token = NoneTok,
                             !.transport = "open",
                             !.locked = FALSE]
         IN  IF Missing(cfg.base_url)
             THEN [s1 EXCEPT !.client = "failed",
                             !.ctorErr = "ValueError_base_url"]
             ELSE IF Missing(cfg.username) \/ Missing(cfg.password)
             THEN [s1 EXCEPT !.client = "failed",
                             !.ctorErr = "ValueError_credentials"]
             ELSE [s1 EXCEPT !.client = "ready"]

\* ---------------------------------------------------------------- actions
Construct ==
    /\ client = "unbuilt"
    /\ \E aUrl, eUrl, aUser, eUser, aPass, ePass \in Inputs :
          LET cfg == [base_url |-> Resolve(aUrl, eUrl),
                      username |-> Resolve(aUser, eUser),
                      password |-> Resolve(aPass, ePass)]
          IN  \E made \in AsyncClientOutcomes(cfg.base_url) :
                  Become(Constructed(Cur, cfg, made))

Call(c) ==
    /\ client = "ready"
    /\ pc[c] = "Idle"
    \* callers are interchangeable: they start in the order of their numbers
    /\ \A b \in Callers : b < c => pc[b] # "Idle"
    /\ \E a \in BOOLEAN, r \in 0..MaxRetry :
          Become(StartCall(Cur, c, DescOf(c), a, r))

Wake(c) ==
    /\ pc[c] = "Waiting"
    /\ ~locked
    /\ waiters # <<>>
    /\ Head(waiters) = c
    /\ Become(WakeUp(Cur, c))

LoginAnswer(c) ==
    /\ pc[c] = "Login"
    /\ \E resp \in LoginResponses : Become(LoginReturns(Cur, c, resp))

ApiAnswer(c) ==
    /\ pc[c] = "Sent"
    /\ \E resp \in ApiResponses : Become(ResponseArrives(Cur, c, resp))

Next ==
    \/ Construct
    \/ \E c \in Callers :
        \/ Call(c)
        \/ Wake(c)
        \/ LoginAnswer(c)
        \/ ApiAnswer(c)

Spec == Init /\ [][Next]_vars

\* every network call is answered and a runnable waiter is scheduled
Fairness ==
    \A c \in Callers :
        /\ WF_vars(Wake(c))
        /\ WF_vars(LoginAnswer(c))
        /\ WF_vars(ApiAnswer(c))

FairSpec == Spec /\ Fairness

TypeOK ==
    /\ client \in {"unbuilt", "ready", "failed"}
    /\ transport \in {"none", "open"}
    /\ token \in {NoneTok, EmptyTok} \cup (1..loginsOk)
    /\ locked \in BOOLEAN
    /\ \A i \in 1..Len(waiters) : pc[waiters[i]] = "Waiting"
    /\ \A c \in Callers :
          /\ pc[c] \in {"Idle", "Waiting", "Login", "Sent"} \cup Terminal
          /\ retry[c] \in 0..MaxRetry
          /\ nSent[c] \in 0..(MaxRetry + 1)


\* ------------------------------------------------------------ vocabulary
Started(c) == pc[c] # "Idle"

LoginMsgs == {"login_http", "login_network", "login_unexpected"}

\* the call ended because the login it made raised
LoginFailed(c) == pc[c] = "Failed" /\ errMsg[c] \in LoginMsgs

AnyLoginFailed == \E c \in Callers : LoginFailed(c)

LoginsInFlight == Cardinality({c \in Callers : pc[c] = "Login"})

\* the innermost frame is a retry made after a 401/403
Retried(c) == retry[c] < retry0[c]

\* ------------------------------------------------------------------ C1
\* C1: as long as no login has failed and no request has been rejected,
\* the callers that need a header have issued exactly one login call
\* between them, and every authenticated request that was sent carries the
\* token that login returned, which is the token the client holds.
C1_SingleLoginUnderRace ==
    (rejects = 0 /\ ~AnyLoginFailed) =>
        /\ (\E c \in Callers : Started(c) /\ auth[c]) => loginCalls = 1
        /\ \A c \in Callers :
              (auth[c] /\ nSent[c] >= 1) =>
                  /\ loginsOk = 1
                  /\ hdrTok[c] = 1
                  /\ hdrTok[c] = token

\* two callers raced on a client without token, one of them waited on the
\* lock, and both requests went out with the token of the single login
C1_Witness ==
    /\ rejects = 0 /\ ~AnyLoginFailed /\ loginCalls = 1
    /\ \E c, d \in Callers :
          /\ c # d /\ auth[c] /\ auth[d]
          /\ nLogin[c] = 1 /\ waited[d] /\ nLogin[d] = 0
          /\ nSent[c] = 1 /\ nSent[d] = 1
          /\ hdrTok[c] = 1 /\ hdrTok[d] = 1

\* ------------------------------------------------------------------ C2
\* C2: in every reachable state at most one login call started through
\* _get_auth_headers is in flight.
C2_AtMostOneLoginInFlight == LoginsInFlight <= 1

\* a login is in flight while another caller is queued on the lock
C2_Witness ==
    \E c, d \in Callers : pc[c] = "Login" /\ pc[d] = "Waiting"

AnsweredBy(c, resp) ==
    pc[c] = "Sent" /\ Become(ResponseArrives(Cur, c, resp))

\* the step taken is caller c's login() resuming on the answer resp
LoginAnsweredBy(c, resp) ==
    pc[c] = "Login" /\ Become(LoginReturns(Cur, c, resp))

RejectionAnswers ==
    {resp \in ApiResponses : resp.kind = "http" /\ resp.status \in {401, 403}}

SuccessAnswers ==
    {resp \in ApiResponses : resp.kind = "http" /\ resp.status < 300}

\* HTTP error statuses other than 401/403, and transport failures
OtherErrorAnswers ==
    {resp \in ApiResponses :
        \/ resp.kind = "transport"
        \/ resp.kind = "http" /\ resp.status >= 400
                              /\ resp.status \notin {401, 403}}

\* ------------------------------------------------------------------ C4
\* C4: a call started with retry = r never sends more than r + 1 API
\* requests (a request in flight in the frame with retry = k is request
\* number r - k + 1); and when the request sent with no retry left is
\* answered 401 or 403, the call fails with AuthenticationError carrying
\* that status code and sends nothing more.
C4_BoundedRetry ==
    /\ [](\A c \in Callers :
             /\ nSent[c] <= retry0[c] + 1
             /\ pc[c] = "Sent" => nSent[c] = retry0[c] - retry[c] + 1)
    /\ [][\A c \in Callers : \A resp \in RejectionAnswers :
             (retry[c] = 0 /\ AnsweredBy(c, resp)) =>
                 /\ pc'[c] = "Failed"
                 /\ errKind'[c] = "AuthenticationError"
                 /\ errStatus'[c] = resp.status
                 /\ nSent'[c] = nSent[c]
                 /\ nSent'[c] = retry0[c] + 1]_vars

\* a call with retry = 1 was rejected twice, the second time with 403
C4_Witness ==
    \E c \in Callers :
        /\ retry0[c] >= 1 /\ pc[c] = "Failed" /\ errMsg[c] = "rejected"
        /\ errStatus[c] = 403 /\ nSent[c] = retry0[c] + 1

\* ------------------------------------------------------------------ C5
\* C5: when an authenticated request is answered 401/403 with retries
\* left, the step that processes the answer leaves the token cleared and
\* the caller on its way to a login (its own, or the one it waits for) in
\* the frame with retry - 1, with nothing sent yet; the request sent by a
\* retry frame is the call's own descriptor and carries a token of a login
\* that completed after the rejection (so never the rejected token, which
\* dates from before it); and a 2xx answer to the retry ends the call in
\* Success with that answer's body.
C5_TransparentReLogin ==
    /\ [](\A c \in Callers :
             /\ hdrTok[c] <= loginsOk
             /\ (auth[c] /\ Retried(c) /\ pc[c] \in {"Sent", "Success"}) =>
                   /\ hdrTok[c] > rejAt[c]
                   /\ sentDesc[c] = desc[c]
                   /\ sentDesc[c] = DescOf(c))
    /\ [][\A c \in Callers : \A resp \in RejectionAnswers :
             (auth[c] /\ retry[c] > 0 /\ AnsweredBy(c, resp)) =>
                 /\ token' = NoneTok
                 /\ pc'[c] \in {"Login", "Waiting"}
                 /\ retry'[c] = retry[c] - 1
                 /\ auth'[c] = auth[c] /\ desc'[c] = desc[c]
                 /\ nSent'[c] = nSent[c]
                 /\ rejAt'[c] = loginsOk
                 /\ hdrTok[c] <= rejAt'[c]]_vars
    /\ [][\A c \in Callers : \A resp \in SuccessAnswers :
             (Retried(c) /\ AnsweredBy(c, resp)) =>
                 /\ pc'[c] = "Success"
                 /\ result'[c] = (IF resp.status = 204 \/ resp.body = "empty"
                                  THEN "None" ELSE resp.body)]_vars

\* a call was rejected, a login made after the rejection returned token 2,
\* the retry went out with it and succeeded
C5_Witness ==
    \E c \in Callers :
        /\ auth[c] /\ Retried(c) /\ pc[c] = "Success"
        /\ nSent[c] = 2 /\ rejAt[c] = 1 /\ hdrTok[c] = 2

\* ------------------------------------------------------------------ C6
\* C6: an API request answered with an HTTP error status other than 401/403
\* or ended by a transport failure fails the call in that very step, with
\* an error that is not an AuthenticationError, whatever retry is left; a
\* failed call sends nothing more.
C6_OnlyAuthRejectionsRetried ==
    /\ [][\A c \in Callers : \A resp \in OtherErrorAnswers :
             AnsweredBy(c, resp) =>
                 /\ pc'[c] = "Failed"
                 /\ errKind'[c] = "MoviePilotError"
                 /\ nSent'[c] = nSent[c]
                 /\ retry'[c] = retry[c]]_vars
    /\ [][\A c \in Callers :
             pc[c] = "Failed" => (pc'[c] = "Failed" /\ nSent'[c] = nSent[c])]_vars

\* a call failed on its first request with a retry left
C6_Witness ==
    \E c \in Callers :
        /\ pc[c] = "Failed" /\ errMsg[c] \in {"api", "network"}
        /\ retry[c] >= 1 /\ nSent[c] = 1

\* ------------------------------------------------------------------ C7
\* C7: every request sent with requires_auth = true carries a token handed
\* out by a login that had completed when the request was sent (tokens
\* 1..loginsOk), never an absent one; and the first call on a fresh client,
\* as long as it is the only call and is not rejected, never waits, issues
\* exactly one login and then one request with that login's token.
C7_FirstUseOrdering ==
    /\ \A c \in Callers :
          (auth[c] /\ nSent[c] >= 1) =>
              (hdrTok[c] >= 1 /\ hdrTok[c] <= loginsOk)
    /\ \A c \in Callers :
          (/\ Started(c) /\ auth[c] /\ ~Retried(c)
           /\ \A d \in Callers \ {c} : pc[d] = "Idle") =>
              /\ pc[c] # "Waiting"
              /\ nLogin[c] = 1 /\ loginCalls = 1
              /\ pc[c] = "Login" => nSent[c] = 0
              /\ LoginFailed(c) => nSent[c] = 0
              /\ (pc[c] \in {"Sent", "Success"}) =>
                    (nSent[c] = 1 /\ loginsOk = 1 /\ hdrTok[c] = 1)

\* the first call on a fresh client succeeded after one login and one
\* request carrying token 1
C7_Witness ==
    \E c \in Callers :
        /\ auth[c] /\ pc[c] = "Success" /\ nLogin[c] = 1 /\ nSent[c] = 1
        /\ hdrTok[c] = 1 /\ loginCalls = 1
        /\ \A d \in Callers \ {c} : pc[d] = "Idle"


\* ------------------------------------------------------------------ C8
\* C8: a rejection processed while no token is held leaves the token absent
\* and does not touch the lock: when the call ends there or needs no header
\* the lock and its queue are as before, and when the call goes on to an
\* authenticated retry the only change is the caller's own entry into
\* _get_auth_headers, which issues exactly one login if the lock is free
\* and queues the caller (issuing none) if it is not.  A call started while
\* the token is absent and the lock is free issues exactly one login too,
\* however many invalidations came before; and no call issues more than one
\* login per attempt.
C8_IdempotentInvalidate ==
    /\ [][\A c \in Callers : \A resp \in RejectionAnswers :
             (Falsy(token) /\ AnsweredBy(c, resp)) =>
                 /\ token' = NoneTok
                 /\ (retry[c] = 0 \/ ~auth[c]) =>
                       (locked' = locked /\ waiters' = waiters
                        /\ loginCalls' = loginCalls)
                 /\ (retry[c] > 0 /\ auth[c] /\ ~locked /\ waiters = <<>>) =>
                       /\ pc'[c] = "Login" /\ locked' /\ waiters' = waiters
                       /\ loginCalls' = loginCalls + 1
                       /\ nLogin'[c] = nLogin[c] + 1
                 /\ (retry[c] > 0 /\ auth[c] /\ (locked \/ waiters # <<>>)) =>
                       /\ pc'[c] = "Waiting" /\ locked' = locked
                       /\ waiters' = Append(waiters, c)
                       /\ loginCalls' = loginCalls]_vars
    /\ [][\A c \in Callers :
             (/\ pc[c] = "Idle" /\ pc'[c] # "Idle" /\ auth'[c]
              /\ Falsy(token) /\ ~locked /\ waiters = <<>>) =>
                 /\ pc'[c] = "Login"
                 /\ loginCalls' = loginCalls + 1
                 /\ nLogin'[c] = 1]_vars
    /\ [](\A c \in Callers : nLogin[c] <= retry0[c] - retry[c] + 1)

\* two requests that carried token 1 were rejected one after the other, the
\* second while no token was held, and one login is in flight
C8_Witness ==
    /\ rejects >= 2 /\ loginsOk = 1 /\ Falsy(token)
    /\ LoginsInFlight = 1
    /\ \E c \in Callers : pc[c] = "Login" /\ Retried(c)

\* ------------------------------------------------------------------ C9
\* C9: if every login call and every API request is answered and a waiter
\* that can take the lock is scheduled, every _request call that was
\* started reaches Success or Failed.
C9_Termination ==
    \A c \in Callers : Started(c) ~> (pc[c] \in Terminal)

\* a call that had been suspended on the lock has ended
C9_Witness ==
    \E c \in Callers : waited[c] /\ pc[c] \in Terminal

\* ----------------------------------------------------------------- C10
\* C10: login() ends in one of two ways.  On a 2xx answer that holds an
\* access_token it returns with that token stored (and the caller's request
\* goes out with it); on every other answer (HTTP 4xx/5xx, transport
\* failure, 2xx without a usable access_token, 2xx that is not JSON, any
\* other failure) the caller gets an AuthenticationError, no token is held
\* and nothing is sent.
C10_LoginOutcomes ==
    [][\A c \in Callers : \A resp \in LoginResponses :
          LoginAnsweredBy(c, resp) =>
              IF resp.kind = "http" /\ resp.status < 400
                                    /\ resp.body = "access_token"
              THEN /\ token' >= 1
                   /\ token' = loginsOk + 1
                   /\ pc'[c] = "Sent"
                   /\ hdrTok'[c] = token'
              ELSE /\ pc'[c] = "Failed"
                   /\ errKind'[c] = "AuthenticationError"
                   /\ errMsg'[c] \in LoginMsgs
                   /\ Falsy(token')
                   /\ loginsOk' = loginsOk
                   /\ nSent'[c] = nSent[c]]_vars

\* a login was answered 200 with an empty access_token: "" is stored and
\* the caller has failed with AuthenticationError
C10_Witness ==
    /\ token = EmptyTok
    /\ \E c \in Callers :
          LoginFailed(c) /\ errKind[c] = "AuthenticationError"


\* ----------------------------------------------------------------- C11
\* C11: a failed call carries exactly one of the two exception classes, and
\* which one, with which message, is fixed by the event that ended it:
\* AuthenticationError for a failed login and for a 401/403 that arrives
\* with no retry left, and for nothing else; MoviePilotError with the
\* "API Error" message for any other HTTP error status, with the
\* "Network error" message for a transport failure, and with the
\* "unexpected error" message for anything else.  A call that has not failed
\* carries no error.
C11_ErrorClassification ==
    /\ [](\A c \in Callers :
             /\ pc[c] # "Failed" => (errKind[c] = "-" /\ errMsg[c] = "-")
             /\ pc[c] = "Failed" =>
                   /\ errKind[c] \in {"AuthenticationError", "MoviePilotError"}
                   /\ errKind[c] = "AuthenticationError"
                         <=> errMsg[c] \in LoginMsgs \cup {"rejected"}
                   /\ errKind[c] = "MoviePilotError"
                         <=> errMsg[c] \in {"api", "network", "unexpected"}
                   /\ errMsg[c] = "rejected" =>
                         (retry[c] = 0 /\ errStatus[c] \in {401, 403}))
    /\ [][\A c \in Callers : \A resp \in LoginResponses :
             (LoginAnsweredBy(c, resp) /\ pc'[c] = "Failed") =>
                 (errKind'[c] = "AuthenticationError"
                  /\ errMsg'[c] \in LoginMsgs)]_vars
    /\ [][\A c \in Callers : \A resp \in ApiResponses :
             AnsweredBy(c, resp) =>
                 IF resp \in SuccessAnswers
                 THEN pc'[c] = "Success"
                 ELSE IF resp \in RejectionAnswers
                 THEN IF retry[c] = 0
                      THEN /\ pc'[c] = "Failed"
                           /\ errKind'[c] = "AuthenticationError"
                           /\ errMsg'[c] = "rejected"
                      ELSE pc'[c] = "Failed" =>
                              /\ errKind'[c] = "AuthenticationError"
                              /\ errMsg'[c] \in LoginMsgs \cup {"rejected"}
                 ELSE /\ pc'[c] = "Failed"
                      /\ errKind'[c] = "MoviePilotError"
                      /\ errMsg'[c] =
                            (IF resp.kind = "transport" THEN "network"
                             ELSE IF resp.kind = "other" THEN "unexpected"
                             ELSE "api")]_vars

\* one call ended on a transport failure and another on an HTTP 404/500:
\* same class, different messages
C11_Witness ==
    \E c, d \in Callers :
        /\ pc[c] = "Failed" /\ errMsg[c] = "network"
        /\ pc[d] = "Failed" /\ errMsg[d] = "api"
        /\ errKind[c] = "MoviePilotError" /\ errKind[d] = "MoviePilotError"

\* ----------------------------------------------------------------- C12
\* C12: every 2xx answer ends the call in Success without an error: the
\* absent result for status 204 or an empty body, the parsed value for a
\* body that is JSON, the raw text for a non-empty body that is not.
C12_SuccessClassification ==
    [][\A c \in Callers : \A resp \in SuccessAnswers :
          AnsweredBy(c, resp) =>
              /\ pc'[c] = "Success"
              /\ errKind'[c] = "-"
              /\ resp.status = 204 => result'[c] = "None"
              /\ resp.body = "empty" => result'[c] = "None"
              /\ (resp.status # 204 /\ resp.body = "json") =>
                    result'[c] = "json"
              /\ (resp.status # 204 /\ resp.body = "text") =>
                    result'[c] = "text"]_vars

\* one call returned the raw text of a body that is not JSON, another the
\* absent result
C12_Witness ==
    \E c, d \in Callers :
        /\ pc[c] = "Success" /\ result[c] = "text"
        /\ pc[d] = "Success" /\ result[d] = "None"


\* ----------------------------------------------------------------- C13
\* caller c is inside `async with self._auth_lock`: the only suspension
\* point inside the block is `await self.login()`
HoldsLock(c) == locked /\ pc[c] = "Login"

\* C13 (as stated): every step that changes the held token is taken by a
\* caller that holds the credential lock.
C13_EveryWriteUnderLock ==
    [][token' # token =>
          \E c \in Callers : HoldsLock(c) /\ pc'[c] # "Login"]_vars

\* C13 (amended): every answer to a login is processed (token set at line
\* 77) by a caller that holds the lock and releases it in the same run; any
\* other change of the token is the clear of line 155, made by a caller
\* whose request was rejected and which does not hold the lock.
C13_OnlyLoginWritesUnderLock ==
    /\ [][\A c \in Callers : \A resp \in LoginResponses :
             LoginAnsweredBy(c, resp) => (HoldsLock(c) /\ ~locked')]_vars
    /\ [][token' # token =>
             \/ \E c \in Callers :
                   HoldsLock(c) /\ pc'[c] # "Login" /\ rejects' = rejects
             \/ /\ token' = NoneTok
                /\ rejects' = rejects + 1
                /\ \E c \in Callers :
                      /\ pc[c] = "Sent" /\ ~HoldsLock(c)
                      /\ (pc'[c] # "Sent" \/ nSent'[c] # nSent[c])]_vars

\* token 1 was set by a login and then cleared by the rejection of a
\* request, with the lock free
C13_Witness ==
    /\ loginsOk = 1 /\ rejects = 1 /\ token = NoneTok
    /\ ~locked /\ waiters = <<>>
    /\ \E c \in Callers :
          pc[c] = "Failed" /\ errMsg[c] = "rejected" /\ hdrTok[c] = 1


\* ----------------------------------------------------------------- C14
\* C14: when the resolved base_url, username or password is missing or
\* empty, construction has failed with one of the two descriptive
\* configuration errors, no client was returned, and the transport made
\* during the failed construction is not left open.
C14_ConstructionValidation ==
    (/\ client # "unbuilt"
     /\ \/ Missing(config.base_url)
        \/ Missing(config.username)
        \/ Missing(config.password)) =>
        /\ client = "failed"
        /\ ctorErr \in {"ValueError_base_url", "ValueError_credentials"}
        /\ transport # "open"


\* ----------------------------------------------------------------- C15
\* C15: the token becomes present only by a login that returns a token,
\* and a held token becomes absent only when the answer processed is the
\* 401/403 rejection of a request that was sent with requires_auth = true
\* and carried that very token; the rejection of a request that carried an
\* older token, or none, leaves the held token in place.
C15_CredentialLifecycle ==
    /\ [][(Falsy(token) /\ ~Falsy(token')) =>
             (loginsOk' = loginsOk + 1 /\ token' = loginsOk')]_vars
    /\ [][(~Falsy(token) /\ token' # token) =>
             \E c \in Callers :
                /\ pc[c] = "Sent" /\ auth[c] /\ hdrTok[c] = token
                /\ \E resp \in RejectionAnswers : AnsweredBy(c, resp)]_vars

\* ----------------------------------------------------------------- C16
\* C16: a call that ended because its login failed carries an
\* AuthenticationError and sent no request in that attempt: it sent one
\* request per earlier (rejected) attempt and none after; a failed login
\* uses up no retry and is not repeated, so the call never issues more
\* logins than it made attempts; and while a call waits for the lock or for
\* its login, the attempt has sent nothing.
C16_LoginFailureEndsCall ==
    \A c \in Callers :
        /\ nLogin[c] <= retry0[c] - retry[c] + 1
        /\ pc[c] \in {"Waiting", "Login"} => nSent[c] = retry0[c] - retry[c]
        /\ LoginFailed(c) =>
              /\ errKind[c] = "AuthenticationError"
              /\ nSent[c] = retry0[c] - retry[c]
              /\ nLogin[c] >= 1

\* one call failed on its first login with a retry left, another on the
\* login made for its retry after a rejection
C16_Witness ==
    \E c, d \in Callers :
        /\ LoginFailed(c) /\ retry[c] >= 1 /\ nSent[c] = 0
        /\ LoginFailed(d) /\ Retried(d) /\ nSent[d] = 1

\* ----------------------------------------------------------------- C17
\* C17: a call with requires_auth = false never waits for the lock, never
\* holds it, never issues a login and sends every request, first or retry,
\* without a token.
C17_NoAuthNeverTouchesCredential ==
    \A c \in Callers :
        (Started(c) /\ ~auth[c]) =>
            /\ pc[c] \notin {"Waiting", "Login"}
            /\ ~waited[c]
            /\ nLogin[c] = 0
            /\ hdrTok[c] = NoneTok
            /\ \A i \in 1..Len(waiters) : waiters[i] # c

\* a call with requires_auth = false was rejected while no token was held
\* and its retry is in flight, without token and without a login
C17_Witness ==
    \E c \in Callers :
        /\ ~auth[c] /\ Retried(c) /\ pc[c] = "Sent" /\ nSent[c] = 2
        /\ Falsy(token) /\ loginCalls = 0

\* ----------------------------------------------------------------- C18
\* C18: processing a 2xx answer, an HTTP error status other than 401/403 or
\* a transport failure changes neither the held token nor the lock nor its
\* queue, and issues no login.
C18_FrameOfNonAuthOutcomes ==
    [][\A c \in Callers :
          \A resp \in SuccessAnswers \cup OtherErrorAnswers :
              AnsweredBy(c, resp) =>
                  /\ token' = token
                  /\ locked' = locked
                  /\ waiters' = waiters
                  /\ loginCalls' = loginCalls
                  /\ loginsOk' = loginsOk]_vars

\* a request carrying the held token ended in a transport failure and the
\* token is still held
C18_Witness ==
    \E c \in Callers :
        /\ pc[c] = "Failed" /\ errMsg[c] = "network"
        /\ token = 1 /\ hdrTok[c] = token /\ rejects = 0

\* ----------------------------------------------------------------- C19
\* C19: the step in which a login fails leaves the lock free, the queue as
\* it was and the token absent; the lock is held only while a login is in
\* flight; and a waiter that takes the lock issues a new login when the
\* token is absent (and otherwise sends its request with the held token).
C19_NoStickyLoginFailure ==
    /\ [](locked <=> LoginsInFlight = 1)
    /\ [][\A c \in Callers : \A resp \in LoginResponses :
             (LoginAnsweredBy(c, resp) /\ pc'[c] = "Failed") =>
                 /\ ~locked'
                 /\ waiters' = waiters
                 /\ Falsy(token')]_vars
    /\ [][\A c \in Callers :
             (pc[c] = "Waiting" /\ pc'[c] # "Waiting") =>
                 /\ ~locked /\ Head(waiters) = c
                 /\ IF Falsy(token)
                    THEN /\ pc'[c] = "Login" /\ locked'
                         /\ nLogin'[c] = nLogin[c] + 1
                         /\ loginCalls' = loginCalls + 1
                    ELSE /\ pc'[c] = "Sent" /\ ~locked'
                         /\ hdrTok'[c] = token
                         /\ loginCalls' = loginCalls]_vars

\* the holder's login failed; the waiter then logged in for itself, got
\* token 1 and sent its request with it
C19_Witness ==
    \E c, d \in Callers :
        /\ LoginFailed(c)
        /\ waited[d] /\ nLogin[d] = 1 /\ loginsOk = 1
        /\ pc[d] \in {"Sent", "Success"} /\ hdrTok[d] = 1

====
